---------------------------- MODULE Spec2Model ----------------------------
(***************************************************************************)
(* The glyph compositor of swash-basics (src/main.rs): three fonts are     *)
(* loaded, three shapers push their glyphs and the rasterized bitmaps into *)
(* `glyphs` and `glyph_images`, the canvas is measured and allocated, and   *)
(* every (bitmap, glyph) pair of the zip is blitted into `img_buffer`.      *)
(*                                                                         *)
(* Numbers.  An f32 advance is kept in half pixels (0 = 0 px, 3 = 1.5 px); *)
(* such values and their short sums are exact in f32.  usize and u8 values *)
(* are plain naturals; the saturating operations are modelled at the bound *)
(* they can reach here (0 for usize, 255 for u8).                          *)
(*                                                                         *)
(* The shaping and rasterization library is a black box: the model draws   *)
(* what it returns (advance, bitmap or no bitmap, placement, coverage)     *)
(* from the finite sets below.  The diagnostic prints of the Arabic block  *)
(* (lines 164, 170, 179) do not feed the compositor and are left out.      *)
(***************************************************************************)
EXTENDS Integers, Sequences, FiniteSets, TLC

VARIABLES
    pc,               \* position in main
    fonts_loaded,     \* number of Font::from_file(..).unwrap() that returned
    load_failed,      \* some Font::from_file returned None
    shaper,           \* which of the three shaping blocks is running (1..3)
    glyphs,           \* Vec<Glyph>, line 83
    glyph_images,     \* Vec<Image>, line 84
    total_width,      \* line 183
    baseline_height,  \* line 185
    total_height,     \* line 190
    img_buffer,       \* Vec<[u8; 4]>, line 198 (index k of the Vec is k + 1 here)
    col,              \* line 201
    glyph_advance,    \* line 203
    glyph_idx,        \* index of enumerate(), line 204
    x,                \* inner loop variable, line 215
    y,                \* outer loop variable, line 214
    stdout,           \* glyph indexes printed by line 209
    saved             \* swash-text.png was written, line 251

vars == << pc, fonts_loaded, load_failed, shaper, glyphs, glyph_images,
           total_width, baseline_height, total_height, img_buffer, col,
           glyph_advance, glyph_idx, x, y, stdout, saved >>

---------------------------------------------------------------------------
(* Bounds of the model and the sets the library's answers are drawn from.  *)

MaxGlyphs == 2        \* glyphs shaped in one run
MaxCluster == 2       \* glyphs of one cluster
MaxTintGlyphs == 9    \* glyphs shaped in one run of SpecTint

Advances == {0, 3}            \* 0 px and 1.5 px, in half pixels
Widths == {1, 2}
Heights == {1, 2}
Lefts == {-1, 0}
Tops == {1, 3}

NumFonts == 3
TintCycle == 8
U8Max == 255

Min(a, b) == IF a < b THEN a ELSE b

(* placement.width/height/left/top and data of a swash Image.  `some` is   *)
(* FALSE for the None of render_glyph.  Coverage alternates 200, 100 over  *)
(* the bitmap's bytes.                                                     *)
CoverageData(w, h) == [k \in 1..(w * h) |-> IF k % 2 = 1 THEN 200 ELSE 100]

NoImage == [some |-> FALSE, width |-> 0, height |-> 0, left |-> 0, top |-> 0,
            data |-> << >>]

EmptyImages == {[some |-> TRUE, width |-> 0, height |-> 0, left |-> 0, top |-> t,
                 data |-> << >>] : t \in Tops}

InkImages == {[some |-> TRUE, width |-> w, height |-> h, left |-> l, top |-> t,
               data |-> CoverageData(w, h)] :
              w \in Widths, h \in Heights, l \in Lefts, t \in Tops}

RenderOutcomes == {NoImage} \cup EmptyImages \cup InkImages

(* A shaped glyph: its advance and what rasterizing it will yield.         *)
GlyphInputs == [advance : Advances, render : RenderOutcomes]

(* The glyphs of SpecTint, both 1 px apart: a 2 px wide glyph that reaches *)
(* into the next glyph's column, and a space.                              *)
TintInputs ==
    {[advance |-> 2, render |-> r] :
       r \in {[some |-> TRUE, width |-> 2, height |-> 1, left |-> 0, top |-> 1,
               data |-> CoverageData(2, 1)],
              [some |-> TRUE, width |-> 0, height |-> 0, left |-> 0, top |-> 1,
               data |-> << >>]}}

(* Clusters of 1..MaxCluster glyphs that still fit under the glyph bound.  *)
Clusters(inputs, room) ==
    UNION {[1..n -> inputs] : n \in 1..Min(MaxCluster, room)}

---------------------------------------------------------------------------
(* Pure functions of the source.                                           *)

(* Font::from_file: None when the file cannot be read (line 21) or         *)
(* FontRef::from_index rejects the data or the index (line 26).            *)
from_file(file_ok, face_ok) == file_ok /\ face_ok

(* render_glyph: the Option<Image> of Render::render.                      *)
render_glyph(glyph) == glyph.render

(* filter_map over one cluster: the Some bitmaps, in order.  `src` records *)
(* the index in `glyphs` of the glyph the bitmap was rasterized from; the  *)
(* program does not keep it.                                               *)
RECURSIVE FilterMapRender(_, _)
FilterMapRender(cluster, base) ==
    IF cluster = << >> THEN << >>
    ELSE LET r == render_glyph(Head(cluster))
             rest == FilterMapRender(Tail(cluster), base + 1)
         IN IF r.some
            THEN << [width |-> r.width, height |-> r.height, left |-> r.left,
                     top |-> r.top, data |-> r.data, src |-> base] >> \o rest
            ELSE rest

(* f32::round, half away from zero, then `as usize` (negative gives 0).    *)
RoundAsUsize(advance) ==
    IF advance < 0 THEN 0 ELSE (advance + 1) \div 2

(* `f32 as usize`: truncation toward zero, negative gives 0.               *)
TruncAsUsize(advance) ==
    IF advance < 0 THEN 0 ELSE advance \div 2

(* .map(|g| g.advance).sum::<f32>()                                         *)
RECURSIVE SumAdvance(_)
SumAdvance(gs) ==
    IF gs = << >> THEN 0 ELSE Head(gs).advance + SumAdvance(Tail(gs))

(* Iterator::max().unwrap_or_default() over usize values.                  *)
RECURSIVE MaxOrDefault(_)
MaxOrDefault(s) ==
    IF s = << >> THEN 0
    ELSE LET m == MaxOrDefault(Tail(s))
         IN IF Head(s) > m THEN Head(s) ELSE m

(* usize::saturating_add_signed, saturating at 0.                          *)
saturating_add_signed(u, d) ==
    IF u + d < 0 THEN 0 ELSE u + d

(* u8::wrapping_add in place of saturating_add.                            *)
wrapping_add(a, b) == (a + b) % 256

(* u8::saturating_add.                                                     *)
saturating_add(a, b) ==
    IF a + b > U8Max THEN U8Max ELSE a + b

(* `col & mask > 0` for mask = 1 << bit.                                   *)
MaskBit(c, bit) == (c \div (2 ^ bit)) % 2 = 1

TotalWidth(gs) == TruncAsUsize(SumAdvance(gs))

BaselineHeight(imgs) ==
    MaxOrDefault([i \in 1..Len(imgs) |-> imgs[i].height])

(* The offset without the saturation at 0.                                 *)
YOff_NoClamp(img, baseline) == baseline - img.top

YOff(img, baseline) == saturating_add_signed(baseline, -img.top)

(* The canvas height taken from the bitmap heights alone.                  *)
TotalHeight_NoOffset(imgs, baseline) ==
    MaxOrDefault([i \in 1..Len(imgs) |-> imgs[i].height])

TotalHeight(imgs, baseline) ==
    MaxOrDefault([i \in 1..Len(imgs) |-> imgs[i].height + YOff(imgs[i], baseline)])

(* The tint counter wrapping one step early.                               *)
NextCol_Mod7(c) == (c + 1) % 7

NextCol(c) == (c + 1) % TintCycle

---------------------------------------------------------------------------
(* The pair the zip yields at glyph_idx and the inner-loop expressions.    *)

ZipLen == Min(Len(glyph_images), Len(glyphs))
glyph_img == glyph_images[glyph_idx + 1]
glyph == glyphs[glyph_idx + 1]

Rows == Min(glyph_img.height, total_height)
x_off == glyph_img.left
y_off == YOff(glyph_img, baseline_height)
x_buf == saturating_add_signed(x, x_off) + glyph_advance
YBufAt(row) == Min(row + y_off, total_height - 1)
y_buf == YBufAt(y)
buffer_idx == y_buf * total_width + x_buf
data_idx == y * glyph_img.width + x
v == glyph_img.data[data_idx + 1]

Blend(pixel, cov, mask) ==
    << IF MaskBit(mask, 0) THEN pixel[1] ELSE saturating_add(cov, pixel[1]),
       IF MaskBit(mask, 1) THEN pixel[2] ELSE saturating_add(cov, pixel[2]),
       IF MaskBit(mask, 2) THEN pixel[3] ELSE saturating_add(cov, pixel[3]),
       saturating_add(cov, pixel[4]) >>

---------------------------------------------------------------------------
Init ==
    /\ pc = "load"
    /\ fonts_loaded = 0
    /\ load_failed = FALSE
    /\ shaper = 1
    /\ glyphs = << >>
    /\ glyph_images = << >>
    /\ total_width = 0
    /\ baseline_height = 0
    /\ total_height = 0
    /\ img_buffer = << >>
    /\ col = 0
    /\ glyph_advance = 0
    /\ glyph_idx = 0
    /\ x = 0
    /\ y = 0
    /\ stdout = << >>
    /\ saved = FALSE

(* A load whose None is not unwrapped: the run goes on without the font.   *)
LoadFont_Ignore(file_ok, face_ok) ==
    /\ pc = "load"
    /\ load_failed' = (load_failed \/ ~from_file(file_ok, face_ok))
    /\ fonts_loaded' = fonts_loaded + 1
    /\ pc' = IF fonts_loaded + 1 = NumFonts THEN "shape" ELSE "load"
    /\ UNCHANGED << shaper, glyphs, glyph_images, total_width, baseline_height,
                    total_height, img_buffer, col, glyph_advance, glyph_idx,
                    x, y, stdout, saved >>

(* Lines 78-81: Font::from_file(..).unwrap(); None panics.                 *)
LoadFont(file_ok, face_ok) ==
    /\ pc = "load"
    /\ IF from_file(file_ok, face_ok)
       THEN /\ fonts_loaded' = fonts_loaded + 1
            /\ pc' = IF fonts_loaded + 1 = NumFonts THEN "shape" ELSE "load"
            /\ UNCHANGED load_failed
       ELSE /\ load_failed' = TRUE
            /\ pc' = "panic_font"
            /\ UNCHANGED fonts_loaded
    /\ UNCHANGED << shaper, glyphs, glyph_images, total_width, baseline_height,
                    total_height, img_buffer, col, glyph_advance, glyph_idx,
                    x, y, stdout, saved >>

(* The shape_with closure, lines 111-118 (137-144, 168-177), on a cluster. *)
ShapeCluster(cluster) ==
    /\ pc = "shape"
    /\ glyphs' = glyphs \o cluster
    /\ glyph_images' = glyph_images \o FilterMapRender(cluster, Len(glyphs))
    /\ UNCHANGED << pc, fonts_loaded, load_failed, shaper, total_width,
                    baseline_height, total_height, img_buffer, col,
                    glyph_advance, glyph_idx, x, y, stdout, saved >>

(* shape_with returns and the block ends (lines 119, 145, 180).            *)
FinishShaper ==
    /\ pc = "shape"
    /\ IF shaper < NumFonts
       THEN shaper' = shaper + 1 /\ pc' = "shape"
       ELSE shaper' = shaper /\ pc' = "measure"
    /\ UNCHANGED << fonts_loaded, load_failed, glyphs, glyph_images,
                    total_width, baseline_height, total_height, img_buffer,
                    col, glyph_advance, glyph_idx, x, y, stdout, saved >>

(* Lines 183-203: dimensions, baseline, zeroed canvas, loop variables.     *)
Measure ==
    /\ pc = "measure"
    /\ total_width' = TotalWidth(glyphs)
    /\ baseline_height' = BaselineHeight(glyph_images)
    /\ total_height' = TotalHeight(glyph_images, baseline_height')
    /\ img_buffer' = [k \in 1..(total_width' * total_height') |-> << 0, 0, 0, 0 >>]
    /\ col' = 0
    /\ glyph_advance' = 0
    /\ glyph_idx' = 0
    /\ pc' = "loop"
    /\ UNCHANGED << fonts_loaded, load_failed, shaper, glyphs, glyph_images,
                    x, y, stdout, saved >>

(* A zero-height iteration that ends in `continue`: the pen and the tint   *)
(* counter are not stepped.                                                *)
SkipGlyph_Continue ==
    /\ pc = "loop"
    /\ glyph_idx < ZipLen
    /\ glyph_img.height = 0
    /\ stdout' = Append(stdout, glyph_idx)
    /\ glyph_idx' = glyph_idx + 1
    /\ UNCHANGED << pc, fonts_loaded, load_failed, shaper, glyphs, glyph_images,
                    total_width, baseline_height, total_height, img_buffer,
                    col, glyph_advance, x, y, saved >>

(* Lines 204-209 and 247-248: an iteration whose bitmap has height 0.      *)
SkipGlyph ==
    /\ pc = "loop"
    /\ glyph_idx < ZipLen
    /\ glyph_img.height = 0
    /\ stdout' = Append(stdout, glyph_idx)
    /\ glyph_advance' = glyph_advance + RoundAsUsize(glyph.advance)
    /\ col' = NextCol(col)
    /\ glyph_idx' = glyph_idx + 1
    /\ UNCHANGED << pc, fonts_loaded, load_failed, shaper, glyphs, glyph_images,
                    total_width, baseline_height, total_height, img_buffer,
                    x, y, saved >>

(* Lines 204-214: an iteration whose bitmap has rows enters the loops.     *)
EnterGlyph ==
    /\ pc = "loop"
    /\ glyph_idx < ZipLen
    /\ glyph_img.height # 0
    /\ x' = 0
    /\ y' = 0
    /\ pc' = "pixel"
    /\ UNCHANGED << fonts_loaded, load_failed, shaper, glyphs, glyph_images,
                    total_width, baseline_height, total_height, img_buffer,
                    col, glyph_advance, glyph_idx, stdout, saved >>

(* Lines 214-243: one source pixel.  Indexing past the Vec panics (222).   *)
BlitPixel ==
    /\ pc = "pixel"
    /\ y < Rows
    /\ x < glyph_img.width
    /\ IF buffer_idx >= Len(img_buffer)
       THEN /\ pc' = "panic_index"
            /\ UNCHANGED << img_buffer, x, y >>
       ELSE /\ img_buffer' = [img_buffer EXCEPT ![buffer_idx + 1] = Blend(@, v, col)]
            /\ IF x + 1 < glyph_img.width
               THEN x' = x + 1 /\ y' = y
               ELSE x' = 0 /\ y' = y + 1
            /\ pc' = "pixel"
    /\ UNCHANGED << fonts_loaded, load_failed, shaper, glyphs, glyph_images,
                    total_width, baseline_height, total_height, col,
                    glyph_advance, glyph_idx, stdout, saved >>

(* Lines 244-249: the loops are exhausted; pen and tint counter step.      *)
EndGlyph ==
    /\ pc = "pixel"
    /\ (y >= Rows \/ glyph_img.width = 0)
    /\ glyph_advance' = glyph_advance + RoundAsUsize(glyph.advance)
    /\ col' = NextCol(col)
    /\ glyph_idx' = glyph_idx + 1
    /\ pc' = "loop"
    /\ UNCHANGED << fonts_loaded, load_failed, shaper, glyphs, glyph_images,
                    total_width, baseline_height, total_height, img_buffer,
                    x, y, stdout, saved >>

(* Lines 251-259: save_buffer_with_format(..).unwrap().                    *)
Save(write_ok) ==
    /\ pc = "loop"
    /\ glyph_idx >= ZipLen
    /\ IF write_ok
       THEN saved' = TRUE /\ pc' = "done"
       ELSE saved' = FALSE /\ pc' = "panic_save"
    /\ UNCHANGED << fonts_loaded, load_failed, shaper, glyphs, glyph_images,
                    total_width, baseline_height, total_height, img_buffer,
                    col, glyph_advance, glyph_idx, x, y, stdout >>

Composite ==
    \/ Measure
    \/ SkipGlyph
    \/ EnterGlyph
    \/ BlitPixel
    \/ EndGlyph
    \/ \E write_ok \in BOOLEAN : Save(write_ok)

Next ==
    \/ \E file_ok \in BOOLEAN, face_ok \in BOOLEAN : LoadFont(file_ok, face_ok)
    \/ \E cluster \in Clusters(GlyphInputs, MaxGlyphs - Len(glyphs)) :
          ShapeCluster(cluster)
    \/ FinishShaper
    \/ Composite

Spec == Init /\ [][Next]_vars

(* The same program on long runs of two simple glyphs.                     *)
NextTint ==
    \/ \E file_ok \in BOOLEAN, face_ok \in BOOLEAN : LoadFont(file_ok, face_ok)
    \/ \E cluster \in Clusters(TintInputs, MaxTintGlyphs - Len(glyphs)) :
          ShapeCluster(cluster)
    \/ FinishShaper
    \/ Composite

SpecTint == Init /\ [][NextTint]_vars

---------------------------------------------------------------------------
(* Vocabulary of the properties.                                           *)

AfterMeasure == {"loop", "pixel", "done", "panic_index", "panic_save"}

AtPixel == pc = "pixel" /\ y < Rows /\ x < glyph_img.width

(* A step of BlitPixel that wrote the canvas.                              *)
BlitStep == AtPixel /\ pc' = "pixel"

(* Sum of the pixel-rounded advances of the first n glyphs.                *)
RECURSIVE PenBefore(_)
PenBefore(n) ==
    IF n = 0 THEN 0 ELSE PenBefore(n - 1) + RoundAsUsize(glyphs[n].advance)

Cap255(n) == IF n > 255 THEN 255 ELSE n

Max0(n) == IF n > 0 THEN n ELSE 0

(* Every bitmap up to the current one came from the glyph the zip pairs it *)
(* with: no earlier glyph was left without a bitmap.                       *)
PairingExact == \A k \in 1..(glyph_idx + 1) : glyph_images[k].src = k - 1

(* C1: during compositing every source pixel of a bitmap with rows has its *)
(* destination column x_buf inside the row (x_buf < total_width) and its   *)
(* destination index inside the canvas (< total_width * total_height).     *)
C1_WritesInsideCanvas ==
    AtPixel =>
        /\ x_buf < total_width
        /\ buffer_idx < total_width * total_height

(* C2: a glyph without a bitmap still advances the pen: every bitmap is    *)
(* blitted at a pen offset equal to the sum of the rounded advances of all *)
(* glyphs shaped before the glyph it was rasterized from, and is paired    *)
(* with that glyph.                                                        *)
C2_PenCountsBitmaplessGlyphs ==
    AtPixel =>
        /\ glyph_img.src = glyph_idx
        /\ glyph_advance = PenBefore(glyph_img.src)

(* C3: the canvas width is the sum of the pixel-rounded advances of all    *)
(* glyphs, and so equals the pen offset once the loop has ended.           *)
C3_WidthIsSumOfRoundedAdvances ==
    /\ pc \in AfterMeasure => total_width = PenBefore(Len(glyphs))
    /\ pc = "done" => total_width = glyph_advance

(* C4: the baseline is the largest bitmap height (0 without bitmaps), the  *)
(* canvas height the largest height + max(0, baseline - top) (0 without    *)
(* bitmaps), and no vertical offset is negative.                           *)
C4_BaselineAndHeight ==
    pc \in AfterMeasure =>
        LET n == Len(glyph_images)
            Bottom(i) == glyph_images[i].height
                         + Max0(baseline_height - glyph_images[i].top)
        IN /\ n = 0 => baseline_height = 0 /\ total_height = 0
           /\ \A i \in 1..n : glyph_images[i].height <= baseline_height
           /\ n > 0 => \E i \in 1..n : glyph_images[i].height = baseline_height
           /\ \A i \in 1..n : Bottom(i) <= total_height
           /\ n > 0 => \E i \in 1..n : Bottom(i) = total_height
           /\ \A i \in 1..n : YOff(glyph_images[i], baseline_height) >= 0

(* A bitmap whose top lies above the baseline and one whose top lies below *)
(* it were measured together.                                              *)
C4_Witness ==
    /\ pc = "done"
    /\ \E i \in 1..Len(glyph_images) : glyph_images[i].top > baseline_height
    /\ \E i \in 1..Len(glyph_images) :
          /\ glyph_images[i].top < baseline_height
          /\ glyph_images[i].height + baseline_height - glyph_images[i].top
               = total_height
    /\ total_height > baseline_height

(* C5: a blit of coverage v leaves min(255, c + v) in the alpha channel    *)
(* and in every channel the tint mask does not hold, and no step makes any *)
(* channel of the canvas smaller or larger than 255.                       *)
C5_SaturatingAccumulation ==
    [][ /\ \A k \in DOMAIN img_buffer :
              /\ k \in DOMAIN img_buffer'
              /\ \A ch \in 1..4 : /\ img_buffer'[k][ch] >= img_buffer[k][ch]
                                  /\ img_buffer'[k][ch] <= 255
        /\ BlitStep =>
              LET old == img_buffer[buffer_idx + 1]
                  new == img_buffer'[buffer_idx + 1]
              IN /\ new[4] = Cap255(old[4] + v)
                 /\ \A b \in 0..2 :
                       ~MaskBit(col, b) => new[b + 1] = Cap255(old[b + 1] + v)
      ]_vars

(* A pixel took two coverages whose sum passes 255.                        *)
C5_Witness ==
    /\ pc = "pixel"
    /\ \E k \in DOMAIN img_buffer : img_buffer[k][4] = 255

C7_LoadFailureAborts ==
    load_failed =>
        /\ pc = "panic_font"
        /\ glyphs = << >>
        /\ glyph_images = << >>
        /\ img_buffer = << >>
        /\ stdout = << >>
        /\ ~saved

(* The third font failed to load after two had loaded.                     *)
C7_Witness == load_failed /\ fonts_loaded = 2

(* C8: source pixel (x, y) goes to column x + left + pen and to row        *)
(* y + max(0, baseline - top), the pen being the sum of the rounded        *)
(* advances of the glyphs before it; stated where that column exists and   *)
(* every earlier glyph has a bitmap.                                       *)
C8_DestinationCoordinates ==
    (AtPixel /\ PairingExact /\ x + glyph_img.left + PenBefore(glyph_idx) >= 0) =>
        /\ x_buf = x + glyph_img.left + PenBefore(glyph_idx)
        /\ y_buf = y + Max0(baseline_height - glyph_img.top)

(* C9: for a blitted bitmap y_off = max(0, baseline - top) and             *)
(* y_off + height <= total_height, so neither min(height, total_height)    *)
(* nor the clamp to total_height - 1 changes a value, and distinct source  *)
(* rows land on distinct canvas rows.                                      *)
C9_BottomEdgeInsideCanvas ==
    pc = "pixel" =>
        LET h == glyph_img.height
            off == Max0(baseline_height - glyph_img.top)
        IN /\ y_off = off
           /\ off + h <= total_height
           /\ Rows = h
           /\ \A r \in 0..(h - 1) : YBufAt(r) = r + off
           /\ \A r1, r2 \in 0..(h - 1) : r1 # r2 => YBufAt(r1) # YBufAt(r2)

(* The second row of a bitmap placed below the top of the canvas.          *)
C9_Witness ==
    /\ pc = "pixel"
    /\ y = 1
    /\ y_off > 0
    /\ glyph_img.top < baseline_height

(* C10: the tint mask of the iteration with index i is i mod 8; a set bit  *)
(* b of it keeps channel b of a touched pixel at its value from before the *)
(* blit, a clear bit lets the channel accumulate, and alpha accumulates.   *)
C10_TintMask ==
    /\ [](pc \in {"loop", "pixel"} => col = glyph_idx % 8)
    /\ [][ BlitStep =>
              LET mask == glyph_idx % 8
                  old == img_buffer[buffer_idx + 1]
                  new == img_buffer'[buffer_idx + 1]
              IN /\ \A b \in 0..2 :
                       IF (mask \div (2 ^ b)) % 2 = 1
                       THEN new[b + 1] = old[b + 1]
                       ELSE new[b + 1] = Cap255(old[b + 1] + v)
                 /\ new[4] = Cap255(old[4] + v)
         ]_vars

(* The ninth iteration blits with the mask back at 0, after a zero-height  *)
(* iteration and after a held channel kept a value another blit had left.  *)
C10_Witness ==
    /\ pc = "pixel"
    /\ glyph_idx = 8
    /\ col = 0
    /\ stdout # << >>
    /\ \E k \in DOMAIN img_buffer :
          /\ img_buffer[k][1] > 0
          /\ img_buffer[k][1] < img_buffer[k][4]

===========================================================================
